---- MODULE Spec2Model ----
(***************************************************************************)
(* The user router (getAll, create, delete) of src/server/routers/user.ts  *)
(* over the users table of src/db/schema.ts.  Every request is one tRPC    *)
(* call: the input parser runs first, then the handler awaits exactly one  *)
(* store statement, then the response travels back.  Requests of different *)
(* slots interleave at the await.                                          *)
(***************************************************************************)
EXTENDS Integers, Sequences, FiniteSets, TLC

\* ------------------------------------------------------------------ bounds
\* last value the serial sequence hands out in the model
MaxSeq == 2
\* last value of the store's clock in the model
MaxClock == 1

\* request slots: calls in flight at the same time
Slots == {"r1", "r2"}

\* strings are tuples of one-character strings
Names == {<<>>, <<" ">>, <<"a">>}
GoodEmails == {<<"a", "@", "b", ".", "c", "c">>, <<"A", "@", "b", ".", "c", "c">>}
MalformedEmails == {<<"a", "@", "b">>, <<>>}
Emails == GoodEmails \cup MalformedEmails
\* an id key a client may add to the create payload (0: no such key)
ClientIds == {0, 1}
\* ids a client may ask to delete; 9 is never handed out by the sequence
DeleteIds == {1, 2, 9}

VARIABLES rows, nextId, now, dbUp, inserted, reqs, page
vars == <<rows, nextId, now, dbUp, inserted, reqs, page>>

\* ------------------------------------------------------- input validation
Letters == {"a", "b", "c", "A"}
Digits == {"1"}
AlNum == Letters \cup Digits
Whitespace == {" "}

Positions(s, ch) == {i \in 1..Len(s) : s[i] = ch}

\* the labels of a domain but the last: every one starts with a letter or a
\* digit and goes on with letters, digits and hyphens
ValidLabels(d) ==
  \A p \in Positions(d, ".") :
    LET before == {q \in Positions(d, ".") : q < p}
        first == IF before = {} THEN 1
                 ELSE (CHOOSE q \in before : \A q2 \in before : q2 <= q) + 1
    IN /\ first <= p - 1
       /\ d[first] \in AlNum
       /\ \A i \in first..(p - 1) : d[i] \in AlNum \cup {"-"}

\* the top-level label: two letters or more
ValidTld(d) ==
  LET dots == Positions(d, ".")
      last == CHOOSE q \in dots : \A q2 \in dots : q2 <= q
  IN /\ Len(d) - last >= 2
     /\ \A i \in (last + 1)..Len(d) : d[i] \in Letters

ValidDomain(d) ==
  /\ Positions(d, ".") # {}
  /\ ValidLabels(d)
  /\ ValidTld(d)

ValidLocal(l) ==
  /\ Len(l) >= 1
  /\ \A i \in 1..Len(l) : l[i] \in AlNum \cup {"_", "'", "+", "-", "."}
  /\ l[1] # "."
  /\ l[Len(l)] \in AlNum \cup {"_", "+", "-"}

\* z.string().email(): local@domain, no leading dot, no two dots in a row
ValidEmail(s) ==
  /\ Cardinality(Positions(s, "@")) = 1
  /\ \A i \in 1..(Len(s) - 1) : ~(s[i] = "." /\ s[i + 1] = ".")
  /\ LET at == CHOOSE i \in Positions(s, "@") : TRUE
     IN /\ ValidLocal(SubSeq(s, 1, at - 1))
        /\ ValidDomain(SubSeq(s, at + 1, Len(s)))

RECURSIVE TrimStart(_)
TrimStart(s) ==
  IF s # <<>> /\ Head(s) \in Whitespace THEN TrimStart(Tail(s)) ELSE s

RECURSIVE TrimEnd(_)
TrimEnd(s) ==
  IF s # <<>> /\ s[Len(s)] \in Whitespace
  THEN TrimEnd(SubSeq(s, 1, Len(s) - 1)) ELSE s

Trim(s) == TrimEnd(TrimStart(s))

ValidNameTrimmed(name) == Len(Trim(name)) >= 1

ValidNameAny(name) == TRUE

\* z.string().min(1, "Name is required")
ValidName(name) == Len(name) >= 1

\* the create input parser: z.object({name, email})
ValidCreateInput(input) == ValidName(input.name) /\ ValidEmail(input.email)

\* ------------------------------------------------------------ the store
Range(s) == {s[i] : i \in 1..Len(s)}

Orderings(S) ==
  {s \in [1..Cardinality(S) -> S] : \A u \in S : \E i \in 1..Cardinality(S) : s[i] = u}

AnyOrder(S) == Orderings(S)

OrderByCreatedAtFirstPage(S) ==
  {SubSeq(s, 1, IF Len(s) > 1 THEN 1 ELSE Len(s)) :
     s \in {t \in Orderings(S) :
              \A i, j \in 1..Len(t) : i < j => t[i].createdAt <= t[j].createdAt}}

\* select().from(users).orderBy(users.createdAt): the orders the store may
\* answer with; rows of equal created_at come in an order it does not fix
OrderByCreatedAt(S) ==
  {s \in Orderings(S) :
     \A i, j \in 1..Len(s) : i < j => s[i].createdAt <= s[j].createdAt}

NoUniqueViolation(email) == FALSE

\* email: text("email").notNull().unique(), compared byte for byte
UniqueViolation(email) == \E u \in rows : u.email = email

\* id: serial("id").primaryKey()
PrimaryKeyViolation(id) == \E u \in rows : u.id = id

InsertValuesSpread(input) == input

\* .values({ name: input.name, email: input.email }); id 0: DEFAULT
InsertValues(input) == [name |-> input.name, email |-> input.email, id |-> 0]

\* serial: nextval('users_id_seq') when the statement gives no id
RowId(values) == IF values.id = 0 THEN nextId ELSE values.id

NewRowSwapped(values) ==
  [id |-> RowId(values), name |-> values.email, email |-> values.name,
   createdAt |-> now]

\* the inserted row; created_at: defaultNow()
NewRow(values) ==
  [id |-> RowId(values), name |-> values.name, email |-> values.email,
   createdAt |-> now]

\* the outcome of INSERT ... RETURNING *: one statement, all or nothing
InsertOutcome(values) ==
  IF ~dbUp THEN [kind |-> "ConnectionError"]
  ELSE IF UniqueViolation(values.email) \/ PrimaryKeyViolation(RowId(values))
       THEN [kind |-> "ConstraintViolation"]
       ELSE [kind |-> "ok", value |-> NewRow(values)]

RowsAfterUpsert(values, outcome) ==
  IF outcome.kind = "ok" THEN rows \cup {outcome.value}
  ELSE IF outcome.kind = "ConstraintViolation"
       THEN {IF u.email = values.email THEN [u EXCEPT !.name = values.name] ELSE u :
               u \in rows}
       ELSE rows

\* the table after the insert statement: the new row or no change at all
RowsAfterInsert(values, outcome) ==
  IF outcome.kind = "ok" THEN rows \cup {outcome.value} ELSE rows

DeleteAllBut(id) == {u \in rows : u.id = id}

\* the rows left by DELETE FROM users WHERE id = $1
DeleteWhere(id) == {u \in rows : u.id # id}

\* --------------------------------------------------------------- requests
\* attempts counts the store statements the call has issued; raced records
\* that another create with the same email succeeded while this one waited
Idle == [op |-> "none", input |-> [id |-> 0], pc |-> "idle",
         res |-> [kind |-> "none"], attempts |-> 0, raced |-> FALSE]

\* the create payloads: every name with every email, and the well-formed ones
\* also with an id key added
CreateInputs ==
  [name : Names, email : Emails, id : {0}]
    \cup [name : {<<"a">>}, email : GoodEmails, id : ClientIds]

DeleteResultSwallowed(outcome) == [kind |-> "ok", value |-> [success |-> TRUE]]

\* delete: await the statement (a failure is thrown on), then {success: true}
DeleteResult(outcome) ==
  IF outcome.kind = "ok" THEN [kind |-> "ok", value |-> [success |-> TRUE]]
  ELSE outcome

\* the page component when it mounts: useState(""), useState("") and the
\* getAll query, which has no data yet and fetches
PageMounted == [name |-> <<>>, email |-> <<>>, users |-> <<>>, fetching |-> TRUE]

Init ==
  /\ page = PageMounted
  /\ rows = {}
  /\ nextId = 1
  /\ now = 0
  /\ dbUp = TRUE
  /\ inserted = <<>>
  /\ reqs = [r \in Slots |-> Idle]

\* create is called: the input parser runs before the handler
CreateCall(r, input) ==
  /\ reqs[r].pc = "idle"
  /\ reqs' = [reqs EXCEPT ![r] =
       IF ValidCreateInput(input)
       THEN [op |-> "create", input |-> input, pc |-> "awaitDb",
             res |-> [kind |-> "none"], attempts |-> 0, raced |-> FALSE]
       ELSE [op |-> "create", input |-> input, pc |-> "done",
             res |-> [kind |-> "ValidationError"], attempts |-> 0, raced |-> FALSE]]
  /\ UNCHANGED <<rows, nextId, now, dbUp, inserted, page>>

\* create's handler: the insert statement runs and its outcome is the answer
CreateExec(r) ==
  /\ reqs[r].pc = "awaitDb"
  /\ reqs[r].op = "create"
  /\ ~dbUp \/ nextId <= MaxSeq
  /\ LET values == InsertValues(reqs[r].input)
         outcome == InsertOutcome(values)
     IN /\ rows' = RowsAfterInsert(values, outcome)
        /\ inserted' = IF outcome.kind = "ok" THEN Append(inserted, outcome.value.id)
                       ELSE inserted
        /\ nextId' = IF dbUp /\ values.id = 0 THEN nextId + 1 ELSE nextId
        /\ reqs' = [q \in Slots |->
             IF q = r
             THEN [reqs[r] EXCEPT !.pc = "done", !.res = outcome, !.attempts = @ + 1]
             ELSE IF /\ outcome.kind = "ok"
                     /\ reqs[q].op = "create"
                     /\ reqs[q].pc = "awaitDb"
                     /\ reqs[q].input.email = reqs[r].input.email
                  THEN [reqs[q] EXCEPT !.raced = TRUE]
                  ELSE reqs[q]]
  /\ UNCHANGED <<now, dbUp, page>>

\* delete is called: z.object({ id: z.number() }) accepts every number
DeleteCall(r, id) ==
  /\ reqs[r].pc = "idle"
  /\ reqs' = [reqs EXCEPT ![r] =
       [op |-> "delete", input |-> [id |-> id], pc |-> "awaitDb",
        res |-> [kind |-> "none"], attempts |-> 0, raced |-> FALSE]]
  /\ UNCHANGED <<rows, nextId, now, dbUp, inserted, page>>

\* delete's handler: the delete statement runs, then {success: true}
DeleteExec(r) ==
  /\ reqs[r].pc = "awaitDb"
  /\ reqs[r].op = "delete"
  /\ LET outcome == IF dbUp THEN [kind |-> "ok"] ELSE [kind |-> "ConnectionError"]
     IN /\ rows' = IF dbUp THEN DeleteWhere(reqs[r].input.id) ELSE rows
        /\ reqs' = [reqs EXCEPT ![r].pc = "done", ![r].res = DeleteResult(outcome),
                                ![r].attempts = @ + 1]
  /\ UNCHANGED <<nextId, now, dbUp, inserted, page>>

\* getAll is called: no input
GetAllCall(r) ==
  /\ reqs[r].pc = "idle"
  /\ reqs' = [reqs EXCEPT ![r] =
       [op |-> "getAll", input |-> [id |-> 0], pc |-> "awaitDb",
        res |-> [kind |-> "none"], attempts |-> 0, raced |-> FALSE]]
  /\ UNCHANGED <<rows, nextId, now, dbUp, inserted, page>>

\* getAll's handler: the select statement runs and its rows are the answer
GetAllExec(r) ==
  /\ reqs[r].pc = "awaitDb"
  /\ reqs[r].op = "getAll"
  /\ \E l \in (IF dbUp THEN OrderByCreatedAt(rows) ELSE {<<>>}) :
       reqs' = [reqs EXCEPT ![r].pc = "done",
                  ![r].res = IF dbUp THEN [kind |-> "ok", value |-> l]
                             ELSE [kind |-> "ConnectionError"],
                  ![r].attempts = @ + 1]
  /\ UNCHANGED <<rows, nextId, now, dbUp, inserted, page>>

\* the answer reaches the caller; the slot is free for the next call
Return(r) ==
  /\ reqs[r].pc = "done"
  /\ reqs' = [reqs EXCEPT ![r] = Idle]
  /\ UNCHANGED <<rows, nextId, now, dbUp, inserted, page>>

\* the store's clock moves on
Tick ==
  /\ now < MaxClock
  /\ now' = now + 1
  /\ UNCHANGED <<rows, nextId, dbUp, inserted, reqs, page>>

\* the store becomes unreachable
DbDown ==
  /\ dbUp
  /\ dbUp' = FALSE
  /\ UNCHANGED <<rows, nextId, now, inserted, reqs, page>>

\* the store is reachable again
DbRecover ==
  /\ ~dbUp
  /\ dbUp' = TRUE
  /\ UNCHANGED <<rows, nextId, now, inserted, reqs, page>>

Next ==
  \/ \E r \in Slots, input \in CreateInputs : CreateCall(r, input)
  \/ \E r \in Slots : CreateExec(r)
  \/ \E r \in Slots, id \in DeleteIds : DeleteCall(r, id)
  \/ \E r \in Slots : DeleteExec(r)
  \/ \E r \in Slots : GetAllCall(r)
  \/ \E r \in Slots : GetAllExec(r)
  \/ \E r \in Slots : Return(r)
  \/ Tick
  \/ DbDown
  \/ DbRecover

Spec == Init /\ [][Next]_vars

\* ------------------------------------------------------ the page component
\* the calls of the page's two mutations
CreateSlot == "r1"
DeleteSlot == "r2"

\* what a user types into the two fields
TypedNames == {<<>>, <<"a">>}
TypedEmails == {<<>>, <<"a", "@", "b">>} \cup GoodEmails

\* a string in a JavaScript condition
Truthy(str) == str # <<>>

OnCreateSuccessKeepFields(p) == [p EXCEPT !.fetching = TRUE]

\* createUser's onSuccess: invalidate getAll, setName(""), setEmail("")
OnCreateSuccess(p) == [p EXCEPT !.fetching = TRUE, !.name = <<>>, !.email = <<>>]

\* deleteUser's onSuccess: invalidate getAll
OnDeleteSuccess(p) == [p EXCEPT !.fetching = TRUE]

\* onChange of the name field
SetName(name) ==
  /\ name # page.name
  /\ page' = [page EXCEPT !.name = name]
  /\ UNCHANGED <<rows, nextId, now, dbUp, inserted, reqs>>

\* onChange of the email field
SetEmail(email) ==
  /\ email # page.email
  /\ page' = [page EXCEPT !.email = email]
  /\ UNCHANGED <<rows, nextId, now, dbUp, inserted, reqs>>

\* the form is submitted: createUser.mutate when both fields are filled
HandleSubmit ==
  IF Truthy(page.name) /\ Truthy(page.email)
  THEN CreateCall(CreateSlot, [name |-> page.name, email |-> page.email, id |-> 0])
  ELSE UNCHANGED vars

\* the create mutation settles: onSuccess runs when it succeeded
CreateSettled ==
  /\ reqs[CreateSlot].pc = "done"
  /\ page' = IF reqs[CreateSlot].res.kind = "ok" THEN OnCreateSuccess(page) ELSE page
  /\ reqs' = [reqs EXCEPT ![CreateSlot] = Idle]
  /\ UNCHANGED <<rows, nextId, now, dbUp, inserted>>

\* the delete button of a listed user is clicked: deleteUser.mutate
ClickDelete(id) ==
  /\ \E u \in Range(page.users) : u.id = id
  /\ DeleteCall(DeleteSlot, id)

\* the delete mutation settles: onSuccess runs when it succeeded
DeleteSettled ==
  /\ reqs[DeleteSlot].pc = "done"
  /\ page' = IF reqs[DeleteSlot].res.kind = "ok" THEN OnDeleteSuccess(page) ELSE page
  /\ reqs' = [reqs EXCEPT ![DeleteSlot] = Idle]
  /\ UNCHANGED <<rows, nextId, now, dbUp, inserted>>

\* the getAll query fetches: its answer becomes the listed users; when the
\* store is unreachable the fetch fails and the list stays
QuerySettled ==
  /\ page.fetching
  /\ \E l \in (IF dbUp THEN OrderByCreatedAt(rows) ELSE {page.users}) :
       page' = [page EXCEPT !.users = l, !.fetching = FALSE]
  /\ UNCHANGED <<rows, nextId, now, dbUp, inserted, reqs>>

PageNext ==
  \/ \E name \in TypedNames : SetName(name)
  \/ \E email \in TypedEmails : SetEmail(email)
  \/ HandleSubmit
  \/ CreateExec(CreateSlot)
  \/ CreateSettled
  \/ \E id \in DeleteIds : ClickDelete(id)
  \/ DeleteExec(DeleteSlot)
  \/ DeleteSettled
  \/ QuerySettled
  \/ Tick
  \/ DbDown
  \/ DbRecover

PageSpec == Init /\ [][PageNext]_vars

\* ----------------------------------------------------------- properties
\* steps of one request, read off two successive states
Called(r, op) == reqs[r].pc = "idle" /\ reqs'[r].pc # "idle" /\ reqs'[r].op = op

Executed(r, op) == reqs[r].pc = "awaitDb" /\ reqs[r].op = op /\ reqs'[r].pc = "done"

Blank(name) == name # <<>> /\ Trim(name) = <<>>

Sorted(l) == \A i, j \in 1..Len(l) : i < j => l[i].createdAt <= l[j].createdAt

\* place of an id in the order of insertion
InsertedAt(id) == CHOOSE i \in 1..Len(inserted) : inserted[i] = id

\* C1: a create whose name is empty or whose email is malformed answers
\* ValidationError without a store statement and leaves the table as it was
ValidationPrecedesSideEffect ==
  [][\A r \in Slots :
       (/\ Called(r, "create")
        /\ reqs'[r].input.name = <<>> \/ reqs'[r].input.email \in MalformedEmails)
       => /\ reqs'[r].pc = "done"
          /\ reqs'[r].res.kind = "ValidationError"
          /\ reqs'[r].attempts = 0
          /\ rows' = rows
          /\ Cardinality(rows') = Cardinality(rows)
          /\ nextId' = nextId]_vars

ValidationWitness ==
  /\ rows # {}
  /\ reqs["r1"].op = "create" /\ reqs["r1"].pc = "done"
  /\ reqs["r1"].input.name = <<>> /\ reqs["r1"].input.email \in GoodEmails
  /\ reqs["r1"].res.kind = "ValidationError"
  /\ reqs["r2"].op = "create" /\ reqs["r2"].pc = "done"
  /\ reqs["r2"].input.name = <<"a">> /\ reqs["r2"].input.email \in MalformedEmails
  /\ reqs["r2"].res.kind = "ValidationError"

\* C2: a valid create whose email equals, character for character, the email
\* of a row in the table answers ConstraintViolation and the table is as it
\* was, so the second of two creates with one email adds no row
DuplicateEmailRejected ==
  [][\A r \in Slots :
       (/\ Executed(r, "create")
        /\ dbUp
        /\ \E u \in rows : u.email = reqs[r].input.email)
       => /\ reqs'[r].res.kind = "ConstraintViolation"
          /\ rows' = rows
          /\ Cardinality(rows') = Cardinality(rows)]_vars

DuplicateEmailWitness ==
  \E r \in Slots :
    /\ reqs[r].op = "create" /\ reqs[r].pc = "done"
    /\ reqs[r].res.kind = "ConstraintViolation"
    /\ Cardinality(rows) = 1
    /\ \E u \in rows : u.email = reqs[r].input.email

EmailsUnique == \A u, v \in rows : u.email = v.email => u = v

\* C3 as stated: no two rows share an email, and of creates with one email
\* that were in flight together at most one succeeds
EmailUniqueOneWinner ==
  /\ EmailsUnique
  /\ \A r \in Slots :
       (reqs[r].op = "create" /\ reqs[r].pc = "done" /\ reqs[r].raced)
       => reqs[r].res.kind # "ok"

\* C3: no two rows share an email, and a create succeeds only when no row of
\* the table has its email at the moment of its insert: of creates with one
\* email in flight together a second succeeds only once the row of the first
\* has been deleted
EmailUniqueInStore ==
  /\ []EmailsUnique
  /\ [][\A r \in Slots :
          (Executed(r, "create") /\ reqs'[r].res.kind = "ok")
          => /\ ~\E u \in rows : u.email = reqs[r].input.email
             /\ \A q \in Slots \ {r} :
                  (/\ reqs[q].op = "create" /\ reqs[q].pc = "done"
                   /\ reqs[q].res.kind = "ok"
                   /\ reqs[q].input.email = reqs[r].input.email)
                  => reqs[q].res.value \notin rows]_vars

EmailRaceWitness ==
  \E r \in Slots :
    /\ reqs[r].op = "create" /\ reqs[r].pc = "done" /\ reqs[r].raced
    /\ reqs[r].res.kind = "ConstraintViolation"
    /\ \E u \in rows : u.email = reqs[r].input.email

\* C4 as stated: the answer of getAll is sorted by createdAt and its order is
\* the order of insertion, also among rows of one createdAt
ListInInsertionOrder ==
  \A r \in Slots :
    (reqs[r].op = "getAll" /\ reqs[r].pc = "done" /\ reqs[r].res.kind = "ok")
    => LET l == reqs[r].res.value
       IN /\ Sorted(l)
          /\ \A i, j \in 1..Len(l) : i < j => InsertedAt(l[i].id) < InsertedAt(l[j].id)

\* C4: the answer of getAll is sorted by createdAt, never decreasing; the
\* order among rows of one createdAt is whatever the store picks
ListSortedByCreatedAt ==
  \A r \in Slots :
    (reqs[r].op = "getAll" /\ reqs[r].pc = "done" /\ reqs[r].res.kind = "ok")
    => Sorted(reqs[r].res.value)

ListSortedWitness ==
  \E r \in Slots :
    /\ reqs[r].op = "getAll" /\ reqs[r].pc = "done" /\ reqs[r].res.kind = "ok"
    /\ Len(reqs[r].res.value) = 2
    /\ reqs[r].res.value[1].createdAt < reqs[r].res.value[2].createdAt
    /\ reqs[r].res.value[1].id < reqs[r].res.value[2].id

\* C5: with the store reachable, delete answers {success: true} and removes
\* the row of its id and no other; for an id that has no row, also right
\* after a delete of that id, the table is as it was
DeleteIdempotent ==
  [][\A r \in Slots :
       (Executed(r, "delete") /\ dbUp)
       => LET id == reqs[r].input.id
          IN /\ reqs'[r].res = [kind |-> "ok", value |-> [success |-> TRUE]]
             /\ rows' = {u \in rows : u.id # id}
             /\ rows \ rows' \subseteq {u \in rows : u.id = id}
             /\ ~(\E u \in rows' : u.id = id)
             /\ (~\E u \in rows : u.id = id) => rows' = rows]_vars

DeleteTwiceWitness ==
  /\ \A r \in Slots :
       /\ reqs[r].op = "delete" /\ reqs[r].pc = "done"
       /\ reqs[r].input.id = 1
       /\ reqs[r].res.kind = "ok" /\ reqs[r].res.value.success
  /\ inserted = <<1, 2>>
  /\ \A u \in rows : u.id = 2
  /\ rows # {}

\* C6: a row that is in the table before and after a step has the same id,
\* name, email and createdAt: steps add rows and remove rows, nothing else
RecordsImmutable ==
  [][\A u \in rows : \A v \in rows' : v.id = u.id => v = u]_vars

RecordsImmutableWitness ==
  /\ inserted = <<1, 2>>
  /\ \E u \in rows : u.id = 1 /\ u.createdAt = 0
  /\ ~\E u \in rows : u.id = 2
  /\ now = MaxClock
  /\ \E r \in Slots :
       /\ reqs[r].op = "delete" /\ reqs[r].pc = "done"
       /\ reqs[r].res.kind = "ok" /\ reqs[r].input.id = 2

IdsUnique == \A u, v \in rows : u.id = v.id => u = v

\* C7: the id of a new row is the next value of the sequence, whatever the
\* payload holds; no two rows share an id, and an id given once is never
\* given again, also when its row is gone
IdsStoreAssigned ==
  /\ []IdsUnique
  /\ [](\A u \in rows : u.id \in Range(inserted) /\ u.id < nextId)
  /\ [][\A u \in rows' \ rows :
          /\ u.id = nextId
          /\ u.id \notin Range(inserted)
          /\ nextId' > nextId]_vars

IdNotReusedWitness ==
  /\ inserted = <<1, 2>>
  /\ ~\E u \in rows : u.id = 1
  /\ \E r \in Slots :
       /\ reqs[r].op = "create" /\ reqs[r].pc = "done" /\ reqs[r].res.kind = "ok"
       /\ reqs[r].input.id = 1
       /\ reqs[r].res.value.id = 2
       /\ reqs[r].res.value \in rows

\* C8 as stated: a create whose name is only whitespace answers
\* ValidationError and no row with such a name is in the table
BlankNameRejected ==
  /\ \A r \in Slots :
       (reqs[r].op = "create" /\ reqs[r].pc # "idle" /\ Blank(reqs[r].input.name))
       => reqs[r].pc = "done" /\ reqs[r].res.kind = "ValidationError"
  /\ \A u \in rows : ~Blank(u.name)

\* C8: the name is checked as given, without trimming: with a well-formed
\* email a create is rejected for its name only when the name is the empty
\* string, and a name of whitespace goes on to the insert and is stored as
\* given
NameCheckedUntrimmed ==
  [][\A r \in Slots :
       /\ (Called(r, "create") /\ reqs'[r].input.email \in GoodEmails)
          => (reqs'[r].res.kind = "ValidationError" <=> reqs'[r].input.name = <<>>)
       /\ (Called(r, "create") /\ reqs'[r].input.email \in GoodEmails
             /\ Blank(reqs'[r].input.name))
          => reqs'[r].pc = "awaitDb"
       /\ (Executed(r, "create") /\ Blank(reqs[r].input.name)
             /\ reqs'[r].res.kind = "ok")
          => \E u \in rows' \ rows : u.name = reqs[r].input.name]_vars

BlankNameWitness ==
  /\ \E u \in rows : Blank(u.name)
  /\ \E r \in Slots :
       /\ reqs[r].op = "create" /\ reqs[r].pc = "done" /\ reqs[r].res.kind = "ok"
       /\ Blank(reqs[r].input.name)

\* C9: with the store reachable, a valid create whose email no row has adds
\* exactly one row and answers with it: name and email of the input, id the
\* sequence value, createdAt the store's clock; every getAll answer over the
\* new table holds it
CreateInsertsOne ==
  [][\A r \in Slots :
       (/\ Executed(r, "create")
        /\ dbUp
        /\ ~\E u \in rows : u.email = reqs[r].input.email)
       => /\ reqs'[r].res.kind = "ok"
          /\ LET user == reqs'[r].res.value
             IN /\ user.name = reqs[r].input.name
                /\ user.email = reqs[r].input.email
                /\ user.id = nextId
                /\ user.createdAt = now
                /\ user \notin rows
                /\ rows' = rows \cup {user}
                /\ Cardinality(rows') = Cardinality(rows) + 1
                /\ \A l \in OrderByCreatedAt(rows') : user \in Range(l)]_vars

CreateWitness ==
  \E r \in Slots :
    /\ reqs[r].op = "create" /\ reqs[r].pc = "done" /\ reqs[r].res.kind = "ok"
    /\ reqs[r].res.value \in rows
    /\ reqs[r].res.value.id = 2
    /\ Cardinality(rows) = 2

\* C10: a statement issued while the store is unreachable ends its call with
\* ConnectionError, for getAll, create and delete alike, after that one
\* statement, and the table is as it was; no call issues a second statement
StoreFailureSurfaced ==
  /\ [](\A r \in Slots : reqs[r].attempts <= 1)
  /\ [][\A r \in Slots :
          (reqs[r].pc = "awaitDb" /\ reqs'[r].pc # "awaitDb" /\ ~dbUp)
          => /\ reqs'[r].pc = "done"
             /\ reqs'[r].res.kind = "ConnectionError"
             /\ reqs'[r].attempts = 1
             /\ rows' = rows]_vars

StoreFailureWitness ==
  /\ reqs["r1"].op = "delete" /\ reqs["r1"].pc = "done"
  /\ reqs["r1"].res.kind = "ConnectionError"
  /\ \E u \in rows : u.id = reqs["r1"].input.id
  /\ reqs["r2"].op \in {"create", "getAll"} /\ reqs["r2"].pc = "done"
  /\ reqs["r2"].res.kind = "ConnectionError"

\* the step ends the call of r with a failure
Failed(r) ==
  /\ reqs[r].pc # "done"
  /\ reqs'[r].pc = "done"
  /\ reqs'[r].res.kind \in {"ValidationError", "ConstraintViolation", "ConnectionError"}

\* C11 as stated: a call that fails leaves nothing behind that a later call
\* can see: table, sequence, clock, reachability and the other calls are as
\* they were, and the slot is free again once the answer is returned
FailureLeavesNoTrace ==
  [][\A r \in Slots :
       Failed(r)
       => /\ rows' = rows
          /\ nextId' = nextId
          /\ now' = now
          /\ dbUp' = dbUp
          /\ \A q \in Slots \ {r} : reqs'[q] = reqs[q]]_vars

\* C11: a call that fails leaves the table, the clock, the reachability of
\* the store and the other calls as they were; the one trace is that a
\* create failing with ConstraintViolation has used up a value of the id
\* sequence, so a later create gets a larger id than it would have got
FailureIsolated ==
  [][\A r \in Slots :
       Failed(r)
       => /\ rows' = rows
          /\ inserted' = inserted
          /\ now' = now
          /\ dbUp' = dbUp
          /\ \A q \in Slots \ {r} : reqs'[q] = reqs[q]
          /\ nextId' = IF reqs'[r].res.kind = "ConstraintViolation"
                       THEN nextId + 1 ELSE nextId]_vars

FailureIsolatedWitness ==
  /\ reqs["r1"].op = "create" /\ reqs["r1"].pc = "done"
  /\ reqs["r1"].res.kind = "ConstraintViolation"
  /\ reqs["r2"].op = "delete" /\ reqs["r2"].pc = "done"
  /\ reqs["r2"].res.kind = "ok"
  /\ inserted = <<1>>
  /\ nextId = 3
  /\ rows = {}

\* C12: with the store reachable, the answer of getAll holds every row that
\* is in the table when its select runs, each once and no other, whatever an
\* earlier getAll answered, and the select leaves table and sequence as they
\* were
ListReadsStore ==
  [][\A r \in Slots :
       (Executed(r, "getAll") /\ dbUp)
       => /\ reqs'[r].res.kind = "ok"
          /\ Range(reqs'[r].res.value) = rows
          /\ Len(reqs'[r].res.value) = Cardinality(rows)
          /\ rows' = rows
          /\ nextId' = nextId
          /\ inserted' = inserted]_vars

ListReadsStoreWitness ==
  /\ reqs["r1"].op = "getAll" /\ reqs["r1"].pc = "done" /\ reqs["r1"].res.kind = "ok"
  /\ reqs["r2"].op = "getAll" /\ reqs["r2"].pc = "done" /\ reqs["r2"].res.kind = "ok"
  /\ Len(reqs["r1"].res.value) = 1
  /\ Len(reqs["r2"].res.value) = 2
  /\ Range(reqs["r2"].res.value) = rows

\* steps of the page's mutations, read off two successive states
Settled(r, op) == reqs[r].pc = "done" /\ reqs[r].op = op /\ reqs'[r].pc = "idle"

\* C13: a create or delete that settles with success invalidates the getAll
\* query, which then fetches the table again; the two fields are emptied by a
\* create that succeeded and by nothing else a mutation does; a create or
\* delete that settles with a failure leaves the page as it is; a create is
\* sent only with both fields filled, and carries them
ClientInvalidation ==
  [][/\ (Settled(CreateSlot, "create") /\ reqs[CreateSlot].res.kind = "ok")
        => /\ page'.fetching
           /\ page'.name = <<>> /\ page'.email = <<>>
           /\ page'.users = page.users
     /\ (Settled(DeleteSlot, "delete") /\ reqs[DeleteSlot].res.kind = "ok")
        => /\ page'.fetching
           /\ page'.name = page.name /\ page'.email = page.email
           /\ page'.users = page.users
     /\ \A r \in Slots :
          (reqs[r].pc = "done" /\ reqs'[r].pc = "idle" /\ reqs[r].res.kind # "ok")
          => page' = page
     /\ (Truthy(page.name) /\ Truthy(page.email)
           /\ page'.name = <<>> /\ page'.email = <<>>)
        => (Settled(CreateSlot, "create") /\ reqs[CreateSlot].res.kind = "ok")
     /\ (\E r \in Slots : Called(r, "create"))
        => /\ Truthy(page.name) /\ Truthy(page.email)
           /\ reqs'[CreateSlot].input.name = page.name
           /\ reqs'[CreateSlot].input.email = page.email
     /\ (page.fetching /\ ~page'.fetching /\ dbUp)
        => Range(page'.users) = rows]_vars

ClientInvalidationWitness ==
  /\ Cardinality(rows) = 1
  /\ inserted = <<1, 2>>
  /\ Len(page.users) = 2
  /\ page.fetching
  /\ page.name = <<>> /\ page.email = <<>>
  /\ reqs[CreateSlot].pc = "idle"
  /\ reqs[DeleteSlot].pc = "idle"

====
